---- MODULE Spec2Model ----
(***************************************************************************)
(* Dataset adapters of gulpio/adapters.py: construction (parse the          *)
(* manifest, build the label index, build and optionally shuffle all_meta), *)
(* __len__, and the iter_data generators of the four adapters, stepped one  *)
(* loop iteration at a time.  Python strings are sequences of one-character *)
(* strings compared by code point; dicts are functions on their keys; the   *)
(* meta dicts live in a heap (metas) because all_meta, its slices and the   *)
(* yielded results share them by reference.                                 *)
(***************************************************************************)
EXTENDS Integers, Sequences, FiniteSets, TLC

VARIABLES
    kind,            \* which adapter class was constructed
    manifest,        \* the descriptor handed to the constructor (never changes)
    ctor_error,      \* TRUE when the constructor raised
    data,            \* self.data
    labels2idx,      \* self.labels2idx / self.label2idx
    shuffle,         \* self.shuffle
    all_meta,        \* self.all_meta: list of references into metas
    metas,           \* the meta dicts, by reference
    all_meta_ctor,   \* all_meta as it was when the constructor returned
    env,             \* per record: what frame acquisition does for it
    gens,            \* the generator objects returned by iter_data, in call order
    running,         \* 0: the consumer runs; g: generator g is executing
    held,            \* temporary burst directories entered and not yet exited
    frame_io,        \* frame acquisitions started so far: <<generator, position>>
    label2idx_json,  \* <<content>> of output_folder/label2idx.json, NoFile if absent
    len_result       \* <<value>> returned by the last len(adapter), NoLen if none

vars == <<kind, manifest, ctor_error, data, labels2idx, shuffle, all_meta,
          metas, all_meta_ctor, env, gens, running, held, frame_io,
          label2idx_json, len_result>>

\* Bounds of the model.
MaxRecords == 2
MaxGens == 2
MaxRows == 3

\* an absent file, and no call made yet; a present value v is kept as <<v>>
NoFile == <<>>
NoLen == <<>>
\* the default of the slice_element parameter
None == <<>>

Min(a, b) == IF a < b THEN a ELSE b

(***************************************************************************)
(* Strings.                                                                *)
(***************************************************************************)
Ord(c) ==
    CASE c = "," -> 44
      [] c = "." -> 46
      [] c = "/" -> 47
      [] c = "a" -> 97
      [] c = "b" -> 98
      [] c = "g" -> 103
      [] c = "j" -> 106
      [] c = "n" -> 110
      [] c = "p" -> 112
      [] c = "x" -> 120
      [] c = "y" -> 121

\* Python's str.__lt__: lexicographic by code point, a proper prefix is less.
RECURSIVE StrLess(_, _)
StrLess(s, t) ==
    IF t = <<>> THEN FALSE
    ELSE IF s = <<>> THEN TRUE
    ELSE IF Head(s) = Head(t) THEN StrLess(Tail(s), Tail(t))
    ELSE Ord(Head(s)) < Ord(Head(t))

EndsWith(s, suffix) ==
    /\ Len(suffix) <= Len(s)
    /\ SubSeq(s, Len(s) - Len(suffix) + 1, Len(s)) = suffix

\* Position of the last "/" in s, 0 if there is none.
LastSlash(s) ==
    LET P == {i \in 1..Len(s) : s[i] = "/"}
    IN  IF P = {} THEN 0 ELSE CHOOSE i \in P : \A j \in P : j <= i

\* os.path.basename and os.path.dirname
Basename(p) == SubSeq(p, LastSlash(p) + 1, Len(p))
Dirname(p) == SubSeq(p, 1, LastSlash(p) - 1)

\* sorted(S) for a set S of strings
RECURSIVE Sorted(_)
Sorted(S) ==
    IF S = {} THEN <<>>
    ELSE LET m == CHOOSE x \in S : \A y \in S \ {x} : StrLess(x, y)
         IN  <<m>> \o Sorted(S \ {m})

Range(f) == {f[i] : i \in DOMAIN f}

\* all orderings of the sequence s
Permutations1(s) ==
    {[i \in 1..Len(s) |-> s[p[i]]] :
        p \in {q \in [1..Len(s) -> 1..Len(s)] : Range(q) = 1..Len(s)}}

\* Python's seq[a:b] for 0 <= a, 0 <= b: both ends are clamped to len(seq).
Slice(seq, a, b) == SubSeq(seq, Min(a, Len(seq)) + 1, Min(b, Len(seq)))

(***************************************************************************)
(* Inputs: the manifests and file trees the constructors are given.        *)
(***************************************************************************)
LabelSet == {<<"a", "b">>, <<"b">>}

\* the labels of the manifests the label index is studied on
IndexLabelSet == {<<"a">>, <<"a", "b">>, <<"b">>}

\* the id of the i-th manifest entry: "x", "xx", ...
IdOf(i) == [j \in 1..i |-> "x"]

Jpg == <<".", "j", "p", "g">>
Png == <<".", "p", "n", "g">>

\* files that may exist under the scanned folder: <label dir>/<name><extension>
FileUniverse == {l \o <<"/">> \o n \o e : l \in LabelSet, n \in {<<"x">>}, e \in {Jpg, Png}}

\* values a caller may pass as file_extensions; the second is the default
ExtensionLists == {<<>>, <<Jpg, Png>>, <<Png, Jpg>>, <<Jpg>>, <<Png>>}

Kinds == {"json_video", "csv_jpeg", "image_list", "image_folder"}

\* What the frame collaborators do for a record: succeed, raise ImageNotFound
\* (for the video adapter: get_single_video_path finds no video), or raise
\* another error.  Only the image-list and the video adapter tell the last
\* two apart.
Outcomes(k) ==
    IF k \in {"image_list", "json_video"} THEN {"ok", "notfound", "error"}
                                          ELSE {"ok", "error"}

\* the manifests of at most n rows with labels from S; entry i has id IdOf(i)
LabelRows(S, n) == UNION {[1..k -> S] : k \in 0..n}

JsonManifest(ls) == [i \in DOMAIN ls |-> [id |-> IdOf(i), template |-> ls[i]]]
CsvManifest(ls) == [i \in DOMAIN ls |-> <<IdOf(i), ls[i]>>]
ListManifest(ls) == [i \in DOMAIN ls |-> <<"a", "/">> \o IdOf(i) \o <<",">> \o ls[i]]
FolderManifests ==
    {[tree |-> t, file_extensions |-> x] :
        t \in {u \in SUBSET FileUniverse : Cardinality(u) <= MaxRecords},
        x \in ExtensionLists}

Manifests(k, S, n) ==
    CASE k = "json_video"   -> {JsonManifest(ls) : ls \in LabelRows(S, n)}
      [] k = "csv_jpeg"     -> {CsvManifest(ls) : ls \in LabelRows(S, n)}
      [] k = "image_list"   -> {ListManifest(ls) : ls \in LabelRows(S, n)}
      [] k = "image_folder" -> FolderManifests

(***************************************************************************)
(* Manifest parsing.                                                       *)
(***************************************************************************)
\* json.load of a list of entries
read_json(m) == m

read_csv(m) == [i \in DOMAIN m |-> [id |-> m[i][1], label |-> m[i][2]]]

\* item.strip().split(',') of a line holding one comma
SplitComma(line) ==
    LET c == CHOOSE i \in 1..Len(line) : line[i] = ","
    IN  <<SubSeq(line, 1, c - 1), SubSeq(line, c + 1, Len(line))>>

parse_paths(m) ==
    [i \in DOMAIN m |->
        LET item == SplitComma(m[i])
        IN  [id |-> Basename(item[1]), label |-> item[2], path |-> item[1]]]

\* glob.glob(folder + "**/*" + extension, recursive=True)
Glob(tree, extension) == {f \in tree : EndsWith(f, extension)}

\* The loop over file_extensions only rebinds paths; the extend after the
\* loop sees the value of the last round.  An empty list leaves paths
\* unbound and the extend raises NameError.
parse_folder_raises(m) == m.file_extensions = <<>>

parse_folder(m) ==
    LET exts      == m.file_extensions
        paths     == Glob(m.tree, exts[Len(exts)])
        img_paths == Sorted(paths)
    IN  [i \in DOMAIN img_paths |->
            LET path          == Dirname(img_paths[i])
                category_name == Basename(path)
            IN  [id |-> Basename(img_paths[i]), label |-> category_name,
                 path |-> path]]

(***************************************************************************)
(* Label index and meta records.                                           *)
(***************************************************************************)
\* list -> dict of enumerate(labels)
Enumerate(labels) ==
    [l \in Range(labels) |-> (CHOOSE i \in DOMAIN labels : labels[i] = l) - 1]

\* the distinct elements of s in order of first appearance
RECURSIVE Distinct(_)
Distinct(s) ==
    IF s = <<>> THEN <<>>
    ELSE LET r == Distinct(SubSeq(s, 1, Len(s) - 1))
         IN  IF s[Len(s)] \in Range(r) THEN r ELSE Append(r, s[Len(s)])

\* create_label2idx_dict numbering the labels in order of first appearance
\* (the sorted(set(...)) left out)
create_label2idx_dict_unsorted(d, label_name) ==
    Enumerate(Distinct([i \in DOMAIN d |-> d[i][label_name]]))

create_label2idx_dict(d, label_name) ==
    Enumerate(Sorted({d[i][label_name] : i \in DOMAIN d}))

ImageList_create_label2idx_dict(d) ==
    Enumerate(Sorted({d[i].label : i \in DOMAIN d}))

ImageFolder_create_label2idx_dict(d) ==
    Enumerate(Sorted({d[i].label : i \in DOMAIN d}))

JsonVideo_get_meta(d, l2i) ==
    [i \in DOMAIN d |->
        [id |-> d[i].id, label |-> d[i].template, idx |-> l2i[d[i].template]]]

CsvJpeg_get_meta(d, l2i) ==
    [i \in DOMAIN d |->
        [id |-> d[i].id, label |-> d[i].label, idx |-> l2i[d[i].label]]]

ImageList_get_meta(d, l2i) ==
    [i \in DOMAIN d |->
        [id |-> d[i].id, label |-> d[i].label, path |-> d[i].path,
         idx |-> l2i[d[i].label]]]

ImageFolder_get_meta(d, l2i) ==
    [i \in DOMAIN d |->
        [id |-> d[i].id, label |-> d[i].label, path |-> d[i].path,
         idx |-> l2i[d[i].label]]]

\* __len__ counting the meta list instead of the parsed records
Length_of_all_meta == Len(all_meta)

\* len(adapter): every class returns len(self.data)
Length == Len(data)

(***************************************************************************)
(* Construction.                                                           *)
(***************************************************************************)
\* What each __init__ computes from its manifest: self.data, the label index
\* and the list get_meta returns.
JsonVideo_init(m) ==
    LET d == read_json(m)
        l == create_label2idx_dict(d, "template")
    IN  [data |-> d, labels2idx |-> l, metas |-> JsonVideo_get_meta(d, l)]

CsvJpeg_init(m) ==
    LET d == read_csv(m)
        l == create_label2idx_dict(d, "label")
    IN  [data |-> d, labels2idx |-> l, metas |-> CsvJpeg_get_meta(d, l)]

ImageList_init(m) ==
    LET d == parse_paths(m)
        l == ImageList_create_label2idx_dict(d)
    IN  [data |-> d, labels2idx |-> l, metas |-> ImageList_get_meta(d, l)]

ImageFolder_init(m) ==
    LET d == parse_folder(m)
        l == ImageFolder_create_label2idx_dict(d)
    IN  [data |-> d, labels2idx |-> l, metas |-> ImageFolder_get_meta(d, l)]

Construct(k, m) ==
    CASE k = "json_video"   -> JsonVideo_init(m)
      [] k = "csv_jpeg"     -> CsvJpeg_init(m)
      [] k = "image_list"   -> ImageList_init(m)
      [] k = "image_folder" -> ImageFolder_init(m)

ConstructorRaises(k, m) == k = "image_folder" /\ parse_folder_raises(m)

\* random.shuffle(self.all_meta): some ordering of the list
Shuffled(seq, flag) == IF flag THEN Permutations1(seq) ELSE {seq}

\* nothing has been called on the adapter yet
Untouched ==
    /\ gens = <<>>
    /\ running = 0
    /\ held = {}
    /\ frame_io = {}
    /\ label2idx_json = NoFile
    /\ len_result = NoLen

\* the adapter of class k as its constructor leaves it, given manifest m
Constructed(k, m) ==
    /\ kind = k
    /\ manifest = m
    /\ Untouched
    /\ IF ConstructorRaises(k, m)
       THEN /\ ctor_error = TRUE
            /\ data = <<>> /\ labels2idx = <<>> /\ metas = <<>>
            /\ shuffle = FALSE /\ all_meta = <<>> /\ all_meta_ctor = <<>>
            /\ env = <<>>
       ELSE LET c == Construct(k, m)
            IN  /\ ctor_error = FALSE
                /\ data = c.data
                /\ labels2idx = c.labels2idx
                /\ metas = c.metas
                /\ shuffle \in BOOLEAN
                /\ all_meta \in Shuffled([i \in DOMAIN c.data |-> i], shuffle)
                /\ all_meta_ctor = all_meta
                /\ env \in [DOMAIN c.data -> Outcomes(k)]

Init == \E k \in Kinds : \E m \in Manifests(k, LabelSet, MaxRecords) : Constructed(k, m)

(***************************************************************************)
(* Generators.  iter_data is a generator function: the call only creates   *)
(* the generator object, the body runs when the consumer calls next().     *)
(***************************************************************************)
\* what a caller passes as slice_element: nothing, or slice(a, b) with
\* 0 <= a <= b <= len(adapter)
SliceArgs ==
    {None} \cup {s \in (0..Length) \X (0..Length) : s[1] <= s[2]}

Live(g) == gens[g].state \in {"created", "suspended"}
Finished(g) == gens[g].state \in {"done", "failed", "closed"}

\* slice_element = slice_element or slice(0, len(self)); a slice is truthy
SliceOrDefault(s) == IF s = None THEN <<0, Length>> ELSE s

\* iter_data as an ordinary function that acquires the frames of the whole
\* slice when it is called
iter_data_eager(s) ==
    /\ running = 0
    /\ ~ctor_error
    /\ Len(gens) < MaxGens
    /\ gens' = Append(gens,
                 [state |-> "created", slice_element |-> s, items |-> <<>>,
                  cursor |-> 0, pc |-> "start", yielded |-> <<>>, wrote |-> 0,
                  prior |-> {h \in DOMAIN gens : gens[h].state = "done"},
                  stopped |-> FALSE])
    /\ frame_io' = frame_io \cup
         {<<Len(gens) + 1, i>> :
             i \in 1..Len(Slice(all_meta, SliceOrDefault(s)[1], SliceOrDefault(s)[2]))}
    /\ UNCHANGED <<kind, manifest, ctor_error, data, labels2idx, shuffle,
                   all_meta, metas, all_meta_ctor, env, running, held,
                   label2idx_json, len_result>>

\* the consumer calls adapter.iter_data(s)
iter_data(s) ==
    /\ running = 0
    /\ ~ctor_error
    /\ Len(gens) < MaxGens
    /\ gens' = Append(gens,
                 [state |-> "created", slice_element |-> s, items |-> <<>>,
                  cursor |-> 0, pc |-> "start", yielded |-> <<>>, wrote |-> 0,
                  prior |-> {h \in DOMAIN gens : gens[h].state = "done"},
                  stopped |-> FALSE])
    /\ UNCHANGED <<kind, manifest, ctor_error, data, labels2idx, shuffle,
                   all_meta, metas, all_meta_ctor, env, running, held,
                   frame_io, label2idx_json, len_result>>

\* the consumer calls len(adapter)
len_call ==
    /\ running = 0
    /\ ~ctor_error
    /\ len_result' = <<Length>>
    /\ UNCHANGED <<kind, manifest, ctor_error, data, labels2idx, shuffle,
                   all_meta, metas, all_meta_ctor, env, gens, running, held,
                   frame_io, label2idx_json>>

\* The first next() runs the body up to the for statement: the slice is taken
\* here.  The image-list adapter binds the slice to self.all_meta and loops
\* over that; the others loop over the temporary list.
Start(g) ==
    LET s  == SliceOrDefault(gens[g].slice_element)
        it == Slice(all_meta, s[1], s[2])
    IN  /\ gens' = [gens EXCEPT ![g] = [@ EXCEPT !.state = "running",
                                                 !.pc = "loop",
                                                 !.items = it]]
        /\ all_meta' = IF kind = "image_list" THEN it ELSE all_meta

\* the consumer calls next(gen) on a generator that can still run
Resume(g) ==
    /\ running = 0
    /\ g \in DOMAIN gens
    /\ Live(g)
    /\ running' = g
    /\ IF gens[g].state = "created"
       THEN Start(g)
       ELSE /\ gens' = [gens EXCEPT ![g] = [@ EXCEPT !.state = "running",
                                                     !.pc = "loop"]]
            /\ UNCHANGED all_meta
    /\ UNCHANGED <<kind, manifest, ctor_error, data, labels2idx, shuffle,
                   metas, all_meta_ctor, env, held, frame_io, label2idx_json,
                   len_result>>

\* next(gen) on a generator that returned, raised or was closed: StopIteration
NextFinished(g) ==
    /\ running = 0
    /\ g \in DOMAIN gens
    /\ Finished(g)
    /\ ~gens[g].stopped
    /\ gens' = [gens EXCEPT ![g].stopped = TRUE]
    /\ UNCHANGED <<kind, manifest, ctor_error, data, labels2idx, shuffle,
                   all_meta, metas, all_meta_ctor, env, running, held,
                   frame_io, label2idx_json, len_result>>

\* closing a generator whose body writes the file in a finally clause instead
\* of the else clause of the for statement
Close_finally(g) ==
    /\ running = 0
    /\ g \in DOMAIN gens
    /\ Live(g)
    /\ gens' = [gens EXCEPT ![g] = [@ EXCEPT !.state = "closed",
                                             !.wrote = @ + 1]]
    /\ label2idx_json' = <<labels2idx>>
    /\ UNCHANGED <<kind, manifest, ctor_error, data, labels2idx, shuffle,
                   all_meta, metas, all_meta_ctor, env, running, held,
                   frame_io, len_result>>

\* the consumer drops (closes) a generator it has not exhausted: GeneratorExit
\* is raised at the yield, or the body never starts; no statement of it runs
Close(g) ==
    /\ running = 0
    /\ g \in DOMAIN gens
    /\ Live(g)
    /\ gens' = [gens EXCEPT ![g].state = "closed"]
    /\ UNCHANGED <<kind, manifest, ctor_error, data, labels2idx, shuffle,
                   all_meta, metas, all_meta_ctor, env, running, held,
                   frame_io, label2idx_json, len_result>>

(***************************************************************************)
(* Pieces of the loop bodies.                                              *)
(***************************************************************************)
AtLoop(g, k) ==
    /\ running = g
    /\ kind = k
    /\ gens[g].pc = "loop"

HasNext(g) == gens[g].cursor < Len(gens[g].items)

\* the meta the for statement binds in this round
NextMeta(g) == gens[g].items[gens[g].cursor + 1]

\* json.dump(self.labels2idx, open(.../label2idx.json, 'w'))
write_label2idx_dict == label2idx_json' = <<labels2idx>>

\* the for statement finds the list exhausted: its else clause runs and the
\* generator returns
Exhausted(g) ==
    /\ write_label2idx_dict
    /\ gens' = [gens EXCEPT ![g] = [@ EXCEPT !.state = "done",
                                             !.wrote = @ + 1]]
    /\ running' = 0

\* an exception leaves the generator
Raise(g, cur) ==
    /\ gens' = [gens EXCEPT ![g] = [@ EXCEPT !.state = "failed",
                                             !.cursor = cur]]
    /\ running' = 0

\* yield {'meta': meta, 'frames': frames, 'id': meta['id']}
Yield(g, cur, meta) ==
    /\ gens' = [gens EXCEPT ![g] =
                  [@ EXCEPT !.state = "suspended", !.cursor = cur,
                            !.yielded = Append(@, [meta |-> meta,
                                                   id |-> metas[meta].id])]]
    /\ running' = 0

\* a call of a frame collaborator for the record at position pos of the loop
Acquire(g, pos) == frame_io' = frame_io \cup {<<g, pos>>}

(***************************************************************************)
(* Custom20BNCsvJpegAdapter.iter_data                                      *)
(***************************************************************************)
CsvJpeg_iter_data_loop(g) ==
    /\ AtLoop(g, "csv_jpeg")
    /\ IF HasNext(g)
       THEN LET meta == NextMeta(g)
                cur  == gens[g].cursor + 1
            IN  /\ Acquire(g, cur)
                /\ IF env[meta] = "ok" THEN Yield(g, cur, meta)
                                       ELSE Raise(g, cur)
                /\ UNCHANGED label2idx_json
       ELSE /\ Exhausted(g)
            /\ UNCHANGED frame_io
    /\ UNCHANGED <<kind, manifest, ctor_error, data, labels2idx, shuffle,
                   all_meta, metas, all_meta_ctor, env, held, len_result>>

(***************************************************************************)
(* ImageFolderAdapter.iter_data                                            *)
(***************************************************************************)
ImageFolder_iter_data_loop(g) ==
    /\ AtLoop(g, "image_folder")
    /\ IF HasNext(g)
       THEN LET meta == NextMeta(g)
                cur  == gens[g].cursor + 1
            IN  /\ Acquire(g, cur)
                /\ IF env[meta] = "ok" THEN Yield(g, cur, meta)
                                       ELSE Raise(g, cur)
                /\ UNCHANGED label2idx_json
       ELSE /\ Exhausted(g)
            /\ UNCHANGED frame_io
    /\ UNCHANGED <<kind, manifest, ctor_error, data, labels2idx, shuffle,
                   all_meta, metas, all_meta_ctor, env, held, len_result>>

(***************************************************************************)
(* ImageListAdapter.iter_data                                              *)
(***************************************************************************)
\* meta.pop('path', None)
PopPath(m) == [k \in DOMAIN m \ {"path"} |-> m[k]]

ImageList_iter_data_loop(g) ==
    /\ AtLoop(g, "image_list")
    /\ IF HasNext(g)
       THEN LET meta == NextMeta(g)
                cur  == gens[g].cursor + 1
            IN  IF "path" \notin DOMAIN metas[meta]
                THEN \* meta['path'] raises KeyError
                     /\ Raise(g, cur)
                     /\ UNCHANGED <<frame_io, metas, label2idx_json>>
                ELSE /\ Acquire(g, cur)
                     /\ CASE env[meta] = "notfound" ->
                               \* except ImageNotFound: continue
                               /\ gens' = [gens EXCEPT ![g].cursor = cur]
                               /\ UNCHANGED <<running, metas>>
                          [] env[meta] = "error" ->
                               /\ Raise(g, cur)
                               /\ UNCHANGED metas
                          [] env[meta] = "ok" ->
                               /\ metas' = [metas EXCEPT ![meta] = PopPath(@)]
                               /\ Yield(g, cur, meta)
                     /\ UNCHANGED label2idx_json
       ELSE /\ Exhausted(g)
            /\ UNCHANGED <<frame_io, metas>>
    /\ UNCHANGED <<kind, manifest, ctor_error, data, labels2idx, shuffle,
                   all_meta, all_meta_ctor, env, held, len_result>>

(***************************************************************************)
(* Custom20BNJsonVideoAdapter.iter_data                                    *)
(***************************************************************************)
\* temp_dir_for_bursting(self.shm_dir_path) is a context manager of
\* gulpio.utils: entering it makes a directory of its own for the with block,
\* leaving the block, normally or by an exception, removes the directory.
BurstDir(g) == <<g, gens[g].cursor>>
temp_dir_enter(d) == held' = held \cup {d}
temp_dir_exit(d) == held' = held \ {d}

\* for meta ...: get_single_video_path, then the with statement is entered
JsonVideo_iter_data_loop(g) ==
    /\ AtLoop(g, "json_video")
    /\ IF HasNext(g)
       THEN LET meta == NextMeta(g)
                cur  == gens[g].cursor + 1
            IN  /\ Acquire(g, cur)
                /\ IF env[meta] = "notfound"
                   THEN /\ Raise(g, cur)
                        /\ UNCHANGED held
                   ELSE /\ gens' = [gens EXCEPT ![g] = [@ EXCEPT !.cursor = cur,
                                                                 !.pc = "burst"]]
                        /\ temp_dir_enter(<<g, cur>>)
                        /\ UNCHANGED running
                /\ UNCHANGED label2idx_json
       ELSE /\ Exhausted(g)
            /\ UNCHANGED <<frame_io, held>>
    /\ UNCHANGED <<kind, manifest, ctor_error, data, labels2idx, shuffle,
                   all_meta, metas, all_meta_ctor, env, len_result>>

\* burst_video_into_frames with the directory made by a plain call instead of
\* a with statement: an exception leaves it behind
JsonVideo_burst_unscoped(g) ==
    /\ running = g
    /\ kind = "json_video"
    /\ gens[g].pc = "burst"
    /\ \/ /\ gens' = [gens EXCEPT ![g].pc = "resize"]
          /\ UNCHANGED <<running, held>>
       \/ /\ env[gens[g].items[gens[g].cursor]] = "error"
          /\ UNCHANGED held
          /\ Raise(g, gens[g].cursor)
    /\ UNCHANGED <<kind, manifest, ctor_error, data, labels2idx, shuffle,
                   all_meta, metas, all_meta_ctor, env, frame_io,
                   label2idx_json, len_result>>

\* burst_video_into_frames inside the with block; when it raises, the with
\* statement exits the context manager and the exception leaves the generator
JsonVideo_burst(g) ==
    /\ running = g
    /\ kind = "json_video"
    /\ gens[g].pc = "burst"
    /\ \/ /\ gens' = [gens EXCEPT ![g].pc = "resize"]
          /\ UNCHANGED <<running, held>>
       \/ /\ env[gens[g].items[gens[g].cursor]] = "error"
          /\ temp_dir_exit(BurstDir(g))
          /\ Raise(g, gens[g].cursor)
    /\ UNCHANGED <<kind, manifest, ctor_error, data, labels2idx, shuffle,
                   all_meta, metas, all_meta_ctor, env, frame_io,
                   label2idx_json, len_result>>

\* list(resize_images(...)) inside the with block, then the block exits and
\* the result is yielded
JsonVideo_resize(g) ==
    /\ running = g
    /\ kind = "json_video"
    /\ gens[g].pc = "resize"
    /\ temp_dir_exit(BurstDir(g))
    /\ IF env[gens[g].items[gens[g].cursor]] = "error"
       THEN Raise(g, gens[g].cursor)
       ELSE Yield(g, gens[g].cursor, gens[g].items[gens[g].cursor])
    /\ UNCHANGED <<kind, manifest, ctor_error, data, labels2idx, shuffle,
                   all_meta, metas, all_meta_ctor, env, frame_io,
                   label2idx_json, len_result>>

Next ==
    \/ \E s \in SliceArgs : iter_data(s)
    \/ len_call
    \/ \E g \in 1..MaxGens : Resume(g)
    \/ \E g \in 1..MaxGens : NextFinished(g)
    \/ \E g \in 1..MaxGens : Close(g)
    \/ \E g \in 1..MaxGens : CsvJpeg_iter_data_loop(g)
    \/ \E g \in 1..MaxGens : ImageFolder_iter_data_loop(g)
    \/ \E g \in 1..MaxGens : ImageList_iter_data_loop(g)
    \/ \E g \in 1..MaxGens : JsonVideo_iter_data_loop(g)
    \/ \E g \in 1..MaxGens : JsonVideo_burst(g)
    \/ \E g \in 1..MaxGens : JsonVideo_resize(g)


Spec == Init /\ [][Next]_vars

(***************************************************************************)
(* The label index as a function of the manifest: adapters are built from  *)
(* manifests of up to MaxRows rows, then built again from the same rows in *)
(* another order, or with a row repeated.                                  *)
(***************************************************************************)
RowKinds == {"json_video", "csv_jpeg", "image_list"}

IndexInit ==
    \E k \in RowKinds : \E m \in Manifests(k, IndexLabelSet, MaxRows) :
        /\ Constructed(k, m)
        /\ shuffle = FALSE
        /\ \A i \in DOMAIN env : env[i] = "ok"

\* a new adapter of the same class is constructed from manifest m
Rebuild(m) ==
    LET c == Construct(kind, m)
    IN  /\ manifest' = m
        /\ data' = c.data
        /\ labels2idx' = c.labels2idx
        /\ metas' = c.metas
        /\ all_meta' = [i \in DOMAIN c.data |-> i]
        /\ all_meta_ctor' = all_meta'
        /\ env' = [i \in DOMAIN c.data |-> "ok"]
        /\ UNCHANGED <<kind, ctor_error, shuffle, gens, running, held,
                       frame_io, label2idx_json, len_result>>

\* rows i and i+1 of the manifest change places
ReorderRows(i) ==
    /\ i \in 1..(Len(manifest) - 1)
    /\ manifest[i] # manifest[i + 1]
    /\ Rebuild([manifest EXCEPT ![i] = manifest[i + 1], ![i + 1] = manifest[i]])

\* row i of the manifest is repeated at the end
DuplicateRow(i) ==
    /\ i \in 1..Len(manifest)
    /\ Len(manifest) < MaxRows
    /\ Rebuild(Append(manifest, manifest[i]))

IndexNext ==
    \/ \E i \in 1..MaxRows : ReorderRows(i)
    \/ \E i \in 1..MaxRows : DuplicateRow(i)

SpecIndex == IndexInit /\ [][IndexNext]_vars

(***************************************************************************)
(* Vocabulary of the properties.                                           *)
(***************************************************************************)
Gens == DOMAIN gens

\* the metas (references) generator g has yielded, in order
YieldedMetas(g) == [i \in DOMAIN gens[g].yielded |-> gens[g].yielded[i].meta]

\* the ids generator g has yielded, in order
YieldedIds(g) == [i \in DOMAIN gens[g].yielded |-> gens[g].yielded[i].id]

\* the loop positions for which generator g started a frame acquisition
AcquiredBy(g) == {e[2] : e \in {f \in frame_io : f[1] = g}}

\* generator g was pulled until it ended (it returned or raised)
Drained(g) == gens[g].state \in {"done", "failed"}

\* loading the image of record r raises ImageNotFound, which the image-list
\* adapter tolerates
Tolerated(r) == kind = "image_list" /\ env[r] = "notfound"

\* the records parsed from the manifest
Parsed ==
    CASE kind = "json_video"   -> read_json(manifest)
      [] kind = "csv_jpeg"     -> read_csv(manifest)
      [] kind = "image_list"   -> parse_paths(manifest)
      [] kind = "image_folder" -> parse_folder(manifest)

\* the label of a parsed record
LabelOf(r) == IF kind = "json_video" THEN r.template ELSE r.label

\* the meta dicts as the constructor built them
MetasCtor ==
    CASE kind = "json_video"   -> JsonVideo_get_meta(data, labels2idx)
      [] kind = "csv_jpeg"     -> CsvJpeg_get_meta(data, labels2idx)
      [] kind = "image_list"   -> ImageList_get_meta(data, labels2idx)
      [] kind = "image_folder" -> ImageFolder_get_meta(data, labels2idx)

(***************************************************************************)
(* C1: label2idx.json is written by a generator exactly when it was pulled *)
(* to natural exhaustion, and then once: a generator that has run through  *)
(* its whole list has written once, every other generator (not pulled,     *)
(* suspended, closed, failed, asked again after it ended) has not written, *)
(* and the file exists, holding the label index, iff some generator was    *)
(* exhausted.                                                              *)
(***************************************************************************)
C1_WrittenIffExhausted ==
    /\ \A g \in Gens :
          /\ gens[g].wrote = IF gens[g].state = "done" THEN 1 ELSE 0
          /\ gens[g].state = "done" =>
                /\ gens[g].cursor = Len(gens[g].items)
                /\ \A i \in 1..Len(gens[g].items) :
                      \/ gens[g].items[i] \in Range(YieldedMetas(g))
                      \/ Tolerated(gens[g].items[i])
    /\ label2idx_json # NoFile <=> \E g \in Gens : gens[g].state = "done"
    /\ label2idx_json # NoFile => label2idx_json = <<labels2idx>>

\* one generator was exhausted and asked again, another one was abandoned
\* after it had yielded
C1_Witness ==
    \E g \in Gens, h \in Gens :
        /\ gens[g].state = "done" /\ gens[g].stopped /\ gens[g].wrote = 1
        /\ gens[h].state = "closed" /\ Len(gens[h].yielded) >= 1
        /\ gens[h].wrote = 0

(***************************************************************************)
(* C2: two full iterations (no slice) of one adapter, the second started   *)
(* after the first was exhausted, yield the same ids in the same order and *)
(* the second one completes as well.                                       *)
(***************************************************************************)
C2_RepeatedIterationStable ==
    \A g \in Gens, h \in Gens :
        ( /\ g \in gens[h].prior
          /\ gens[g].slice_element = None
          /\ gens[h].slice_element = None
          /\ Drained(h) )
        => /\ gens[h].state = "done"
           /\ YieldedIds(h) = YieldedIds(g)

(***************************************************************************)
(* C3: a drained iter_data([a, b)) yields the records at positions         *)
(* a..b-1 of the construction-time all_meta, in that order, less the       *)
(* records the image-list adapter skips, whatever other iter_data calls    *)
(* were made on the adapter.                                               *)
(***************************************************************************)
C3_SliceWindow ==
    \A g \in Gens :
        gens[g].state = "done" =>
            LET s == IF gens[g].slice_element = None
                     THEN <<0, Len(all_meta_ctor)>>
                     ELSE gens[g].slice_element
                window == SubSeq(all_meta_ctor, s[1] + 1, s[2])
            IN  YieldedMetas(g) = SelectSeq(window, LAMBDA r : ~Tolerated(r))

(***************************************************************************)
(* C4: len(adapter) returns the number of records parsed from the         *)
(* manifest, whenever it is called.                                        *)
(***************************************************************************)
C4_LengthIsManifestCount ==
    len_result # NoLen => len_result = <<Len(Parsed)>>

\* the image-list adapter skipped a record and narrowed a slice, and len()
\* called afterwards still counts every record
C4_Witness ==
    /\ kind = "image_list"
    /\ len_result = <<MaxRecords>>
    /\ Len(all_meta) < MaxRecords
    /\ \E g \in Gens : gens[g].state = "done" /\ \E r \in Range(gens[g].items) : Tolerated(r)

(***************************************************************************)
(* C5: the label index is a function of the set of labels only: every     *)
(* reordering of the parsed records and every duplication of one of them   *)
(* gives the index the constructor built, and that index maps the distinct *)
(* labels one-to-one onto 0..n-1 in ascending label order.                 *)
(***************************************************************************)
C5_LabelIndexOrderFree ==
    /\ [](LET labels == {LabelOf(data[i]) : i \in DOMAIN data}
          IN  /\ DOMAIN labels2idx = labels
              /\ {labels2idx[l] : l \in labels} = 0..(Cardinality(labels) - 1)
              /\ \A l \in labels, m \in labels :
                    StrLess(l, m) => labels2idx[l] < labels2idx[m])
    /\ [][labels2idx' = labels2idx]_vars

\* after a reordering the manifest starts with its greatest label, and the
\* index still follows the label order
C5_Witness ==
    /\ Len(data) = MaxRows
    /\ data[1].id # IdOf(1)
    /\ LabelOf(data[1]) = <<"b">>
    /\ LabelOf(data[2]) = <<"a">>
    /\ LabelOf(data[3]) = <<"a", "b">>
    /\ labels2idx[<<"a">>] = 0
    /\ labels2idx[<<"a", "b">>] = 1
    /\ labels2idx[<<"b">>] = 2

(***************************************************************************)
(* C6: in the image-list adapter a record whose image is not found is the  *)
(* only thing left out: a generator that tried to load such a record, and  *)
(* has no record whose loading fails otherwise, ends exhausted once it is  *)
(* drained, having written label2idx.json and yielded every other record   *)
(* of its list in order.                                                   *)
(***************************************************************************)
C6_NotFoundOnlySkips ==
    \A g \in Gens :
        ( /\ kind = "image_list"
          /\ Drained(g)
          /\ \E i \in AcquiredBy(g) : env[gens[g].items[i]] = "notfound"
          /\ \A r \in Range(gens[g].items) : env[r] # "error" )
        => /\ gens[g].state = "done"
           /\ gens[g].wrote = 1
           /\ YieldedMetas(g) =
                 SelectSeq(gens[g].items, LAMBDA r : env[r] # "notfound")

(***************************************************************************)
(* C7: frames are acquired one record per pull: construction, len() and    *)
(* iter_data calls acquire nothing, a generator acquires for the positions *)
(* of its list in order, never beyond the one it is working on, and when   *)
(* it is suspended after its k-th result the acquisitions are those of the *)
(* k yielded records and of the records skipped before the k-th.           *)
(***************************************************************************)
C7_LazyAcquisition ==
    /\ (\A g \in Gens : gens[g].pc = "start") => frame_io = {}
    /\ \A e \in frame_io : e[1] \in Gens
    /\ \A g \in Gens :
          LET acq == AcquiredBy(g)
          IN  /\ gens[g].pc = "start" => acq = {}
              /\ acq \subseteq 1..gens[g].cursor
              /\ gens[g].state = "suspended" =>
                    /\ acq = 1..gens[g].cursor
                    /\ gens[g].items[gens[g].cursor]
                          = gens[g].yielded[Len(gens[g].yielded)].meta
                    /\ Cardinality(acq) = Len(gens[g].yielded)
                          + Cardinality({i \in 1..gens[g].cursor :
                                            Tolerated(gens[g].items[i])})

\* a generator suspended after its first result with a record left, next to
\* a generator that was created and not pulled, after len() was called
C7_Witness ==
    \E g \in Gens, h \in Gens :
        /\ gens[g].state = "suspended"
        /\ Len(gens[g].yielded) = 1
        /\ gens[g].cursor < Len(gens[g].items)
        /\ AcquiredBy(g) = {1}
        /\ gens[h].state = "created"
        /\ len_result # NoLen

(***************************************************************************)
(* C8: parse_folder gives one record for every file that matches any of    *)
(* the file_extensions, in ascending order of the full path (stated for    *)
(* the lists that name at least one extension).                            *)
(***************************************************************************)
C8_FolderAllExtensions ==
    (kind = "image_folder" /\ manifest.file_extensions # <<>>) =>
        LET matching == {f \in manifest.tree :
                            \E i \in DOMAIN manifest.file_extensions :
                                EndsWith(f, manifest.file_extensions[i])}
            paths    == Sorted(matching)
        IN  /\ ~ctor_error
            /\ data = [i \in DOMAIN paths |->
                          [id |-> Basename(paths[i]),
                           label |-> Basename(Dirname(paths[i])),
                           path |-> Dirname(paths[i])]]

(***************************************************************************)
(* C9: iter_data leaves all_meta as the constructor left it: same list,    *)
(* same order, same fields in every record.                                *)
(***************************************************************************)
C9_AllMetaUnchanged ==
    ~ctor_error => /\ all_meta = all_meta_ctor
                   /\ metas = MetasCtor

(***************************************************************************)
(* C10: the burst directory of a record is released before the record is   *)
(* yielded and before the next record is started, also when bursting or    *)
(* resizing raises: a directory is held only while the video generator is  *)
(* inside the with block of its current record, so at most one is held,    *)
(* and none while a generator is suspended, exhausted, closed or failed.   *)
(***************************************************************************)
C10_BurstDirScoped ==
    /\ Cardinality(held) <= 1
    /\ running = 0 => held = {}
    /\ \A g \in Gens :
          /\ gens[g].state # "running" => \A d \in held : d[1] # g
          /\ (running = g /\ gens[g].pc = "loop") => held = {}
          /\ (running = g /\ gens[g].pc \in {"burst", "resize"})
                => held = {<<g, gens[g].cursor>>}

\* the video generator yielded one record, then bursting or resizing of the
\* next one raised, and no directory is left
C10_Witness ==
    \E g \in Gens :
        /\ kind = "json_video"
        /\ gens[g].state = "failed"
        /\ Len(gens[g].yielded) = 1
        /\ gens[g].cursor = 2
        /\ env[gens[g].items[2]] = "error"
        /\ held = {}

====
